---- MODULE Spec2Model ----
(***************************************************************************)
(* Model of src/src/components/LaserController.tsx: the host side of a    *)
(* serial laser controller written as one React function component.       *)
(*                                                                         *)
(* The component's state (useState / useRef) is the model's state.  Every  *)
(* handler runs to its next await as one action; the render that follows   *)
(* its state updates and the effects of that render are part of the same   *)
(* action (operator Render).  An async function that is suspended at an    *)
(* await keeps the variables of the render that created it: those captured *)
(* values are fields of the task records (conn, teardowns, timers).        *)
(*                                                                         *)
(* The calls of logMessage a handler makes are recorded in `logged`, the   *)
(* entry types of the last step; the console they fill, with its limit of  *)
(* 100 entries, is followed entry by entry in SpecConsole.  A promise of   *)
(* the serial streams settles resolved or rejected: the action that        *)
(* resumes after it takes the outcome as its parameter ok.                 *)
(***************************************************************************)
EXTENDS Integers, Sequences, FiniteSets

\* ------------------------------------------------------------------ bounds
MaxConnects == 2     \* connect clicks explored
MaxTeardowns == 1    \* user disconnects in flight at once
MaxWrites == 2       \* commands recorded on the transport
MaxBytes == 4        \* raw bytes fed to the frame reader
MaxChunk == 3        \* bytes in one raw chunk
MaxLogged == 103     \* console entries created
BurstCap == 2        \* the burst counter saturates here

\* --------------------------------------------------------------- constants
Null == 0                    \* useState(null): no port / reader / writer
DefaultBrightness == 50      \* useState<number>(50)
InitialStateFallback == 50   \* jsonData.laser_brightness || 50
HeartbeatFallback == 0       \* data.laser_brightness || 0
Threshold == 2               \* Math.abs(...) > 2

UnknownVersion == "Unknown"
InitialFreeHeap == 45600     \* freeHeap of the first render
LogKeep == 99                \* prev.slice(-99)
NoVersion == ""              \* version absent (or falsy) in a message

\* Values the slider is moved to (its range is 0..100), and values the
\* device reports (any number its firmware prints).
UserBrightness == {DefaultBrightness, 52}
DeviceBrightness == {0, DefaultBrightness, 52, 150}

ConnIds == 1..MaxConnects

VARIABLES
    port, reader, writer,     \* useState: handles, Null or a connection id
    isConnected,              \* useState<boolean>
    isConnectedRef,           \* useRef<boolean>
    laserOn,                  \* useState<boolean>
    laserBrightness,          \* useState<number>
    brightnessInitialized,    \* useState<boolean>
    deviceStats,              \* useState<DeviceStats> (firmwareVersion)
    timers,                   \* pending setTimeout callbacks of debounce
    written,                  \* commands handed to writer.write, in order
    conn,                     \* per connect click: connect / startReading task
    nextConn,                 \* id the next connect click gets
    teardowns,                \* disconnect() calls suspended at an await
    held,                     \* per port: handles obtained and not yet closed
    hasSerial,                \* 'serial' in navigator
    consoleData,              \* useState<ConsoleEntry[]>, see SpecConsole
    burst,                    \* observer: the current burst of slider moves
    logged,                   \* observer: types logMessage got in the last step
    frameIn,                  \* observer: raw bytes read so far
    frameOut                  \* observer: lines given to processReceivedData

vars == <<port, reader, writer, isConnected, isConnectedRef, laserOn,
          laserBrightness, brightnessInitialized, deviceStats, timers,
          written, conn, nextConn, teardowns, held, hasSerial, consoleData,
          burst, logged, frameIn, frameOut>>

reactState == <<port, reader, writer, isConnected, isConnectedRef, laserOn,
                laserBrightness, brightnessInitialized, deviceStats, timers>>

frameVars == <<frameIn, frameOut>>

\* Left alone by the handlers of the session: the capability of the browser,
\* and the console, whose entries are followed one by one in SpecConsole
\* (the session records the calls of logMessage in `logged`).
otherVars == <<hasSerial, consoleData>>

\* ------------------------------------------------------------ small helpers
Abs(x) == IF x < 0 THEN -x ELSE x

Min(a, b) == IF a < b THEN a ELSE b

Last(s) == s[Len(s)]

NoBurst == [n |-> 0, last |-> 0, sent |-> <<>>]

\* The handles of one port: the port itself, its reader and its writer.
Handles == {"port", "reader", "writer"}

\* What an attempt that threw after open() may have got: nothing (open()
\* rejected), or the open port with at most one of reader and writer.
OpenFailures == {{}, {"port"}, {"port", "reader"}, {"port", "writer"}}

\* held after close() or cancel() was called on handle h of port c.
Called(h, c) == IF c = Null THEN held
                ELSE [held EXCEPT ![c] = @ \ {h}]

\* deviceStats of the first render.
InitialStats ==
    [uptime |-> 0, freeHeap |-> InitialFreeHeap,
     firmwareVersion |-> UnknownVersion]

IdleTask == [pc |-> "idle", cr |-> Null, cw |-> Null, cp |-> Null,
             cBI |-> FALSE, cB |-> DefaultBrightness, buffer |-> <<>>]

\* A task that has returned: its captured variables are dead.
Ended(pc) == [IdleTask EXCEPT !.pc = pc]

\* ---------------------------------------------------------- message inputs
\* A decoded line that JSON.parse accepts: the fields the handlers look at.
\* Type "other" stands for every type but the three the handlers name, and
\* for no type at all.  hasV, hasU, hasH say that the object has the keys
\* version, uptime_ms, free_heap_bytes; a key it has not reads as undefined,
\* which is falsy like "" and 0.
JsonLines ==
    {m \in [kind : {"json"},
            type : {"initial_state", "status", "heartbeat", "other"},
            hasState : BOOLEAN, state : BOOLEAN,
            hasB : BOOLEAN, b : DeviceBrightness \cup {0},
            hasV : BOOLEAN, version : {NoVersion, "5.1"},
            hasU : {FALSE}, uptime_ms : {0},
            hasH : {FALSE}, free_heap_bytes : {0}] :
        /\ ~m.hasState => ~m.state
        /\ ~m.hasB => m.b = 0
        /\ m.hasV = (m.version # NoVersion)
        /\ m.version # NoVersion => ~m.hasState /\ ~m.hasB
        /\ m.type \in {"status", "other"} => ~m.hasState}

\* JSON lines that carry the statistics of the device, among them the
\* values 0 and "".
StatsLines ==
    {m \in [kind : {"json"},
            type : {"initial_state", "status", "heartbeat", "other"},
            hasState : {FALSE}, state : {FALSE},
            hasB : {FALSE}, b : {0},
            hasV : BOOLEAN, version : {NoVersion, "5.1"},
            hasU : BOOLEAN, uptime_ms : {0, 1500},
            hasH : BOOLEAN, free_heap_bytes : {0, 30000}] :
        /\ ~m.hasV => m.version = NoVersion
        /\ ~m.hasU => m.uptime_ms = 0
        /\ ~m.hasH => m.free_heap_bytes = 0}

\* A line JSON.parse rejects, by the one text pattern it carries:
\*   "loaded"  Loaded brightness: NN%
\*   "banner"  Device initialized ... Brightness: NN% ... Laser: ON|OFF
\*   "echo"    Laser State: ON|OFF ... Laser Brightness: NN%
\*   "plain"   none of the patterns
TextLines ==
    {m \in [kind : {"loaded", "banner", "echo", "plain"}, type : {""},
            hasState : BOOLEAN, state : BOOLEAN,
            hasB : BOOLEAN, b : DeviceBrightness \cup {0},
            hasV : {FALSE}, version : {NoVersion},
            hasU : {FALSE}, uptime_ms : {0},
            hasH : {FALSE}, free_heap_bytes : {0}] :
        /\ ~m.hasState => ~m.state
        /\ ~m.hasB => m.b = 0
        /\ m.kind = "loaded" => m.hasB /\ ~m.hasState
        /\ m.kind = "banner" => m.hasB /\ m.hasState
        /\ m.kind = "echo" => m.hasB /\ m.hasState
        /\ m.kind = "plain" => ~m.hasB /\ ~m.hasState}

Lines == JsonLines \cup TextLines

\* status and heartbeat messages that report the brightness.
StatusLines ==
    {m \in JsonLines : m.type \in {"status", "heartbeat"} /\ m.hasB}

\* JSON lines of a type the handlers do not know: some that report a
\* brightness (they are in JsonLines) and some that carry the statistics of
\* the device (they are in StatsLines).
OtherTypeLines ==
    [kind : {"json"}, type : {"other"}, hasState : {FALSE}, state : {FALSE},
     hasB : {TRUE}, b : DeviceBrightness, hasV : {FALSE}, version : {NoVersion},
     hasU : {FALSE}, uptime_ms : {0}, hasH : {FALSE}, free_heap_bytes : {0}]
    \cup
    [kind : {"json"}, type : {"other"}, hasState : {FALSE}, state : {FALSE},
     hasB : {FALSE}, b : {0}, hasV : {TRUE}, version : {NoVersion, "5.1"},
     hasU : {TRUE}, uptime_ms : {0, 1500},
     hasH : {TRUE}, free_heap_bytes : {0, 30000}]

\* initial_state messages that report power and brightness.
InitialStateLines ==
    {m \in JsonLines : m.type = "initial_state" /\ m.hasB /\ m.hasState}

\* ------------------------------------------------------- command dispatcher
\* Faulty variant of sendCommand: the write is made without the test of
\* the writer and of isConnectedRef.
sendCommandUnguarded(command, currentWriter) == Append(written, command)

\* sendCommand(command, currentWriter): what `written` becomes.
sendCommand(command, currentWriter) ==
    IF currentWriter = Null \/ ~isConnectedRef
    THEN written
    ELSE Append(written, command)

\* What sendCommand gives logMessage: 'No connection available' (error),
\* or, once the write has settled, 'Sent: ...' (warning) when it resolved
\* and 'Send error: ...' (error) when it rejected.
sendLog(currentWriter, ok) ==
    IF currentWriter = Null \/ ~isConnectedRef THEN <<"error">>
    ELSE IF ok THEN <<"warning">>
    ELSE <<"error">>

\* The write of sendCommand happens; the transport record has room for it.
RoomFor(currentWriter) ==
    (currentWriter # Null /\ isConnectedRef) => Len(written) < MaxWrites

\* Faulty variant of debounce: setTimeout without the clearTimeout before it.
debounceNoClear(ts, w, v) == ts \cup {[w |-> w, v |-> v]}

\* Faulty variant of debounce: a call made while the instance's timer is
\* pending is dropped (the first value of a burst is sent, not the last).
debounceKeepsFirst(ts, w, v) ==
    IF \E t \in ts : t.w = w THEN ts ELSE ts \cup {[w |-> w, v |-> v]}

\* debounce: one instance per [writer, isConnected] of useCallback; a timer
\* remembers the instance (the writer its sendCommand closes over) and the
\* argument it was armed with.  Arming clears the instance's pending timer.
debounce(ts, w, v) == {t \in ts : t.w # w} \cup {[w |-> w, v |-> v]}

\* Dependencies of the brightness effect that differ from the last render.
BrightnessDepsChanged(w, ic, on, br, bi) ==
    \/ br # laserBrightness
    \/ on # laserOn
    \/ ic # isConnected
    \/ bi # brightnessInitialized
    \/ w # writer

\* Faulty variant of Render: the isConnected effect's reset of
\* brightnessInitialized is made whenever the laser is off as well.
RenderResetsWhenOff(p, r, w, ic, on, br, bi, ds) ==
    /\ port' = p
    /\ reader' = r
    /\ writer' = w
    /\ isConnected' = ic
    /\ laserOn' = on
    /\ laserBrightness' = br
    /\ deviceStats' = ds
    /\ isConnectedRef' = IF ic # isConnected THEN ic ELSE isConnectedRef
    /\ brightnessInitialized' = IF (ic # isConnected /\ ~ic) \/ ~on
                                THEN FALSE ELSE bi
    /\ timers' = IF BrightnessDepsChanged(w, ic, on, br, bi) /\ on /\ ic /\ bi
                 THEN debounce(timers, w, br)
                 ELSE timers

\* One commit: the state updates of a handler, the render, and the two
\* effects of that render (isConnected effect, brightness effect).
Render(p, r, w, ic, on, br, bi, ds) ==
    /\ port' = p
    /\ reader' = r
    /\ writer' = w
    /\ isConnected' = ic
    /\ laserOn' = on
    /\ laserBrightness' = br
    /\ deviceStats' = ds
    /\ isConnectedRef' = IF ic # isConnected THEN ic ELSE isConnectedRef
    /\ brightnessInitialized' = IF ic # isConnected /\ ~ic THEN FALSE ELSE bi
    /\ timers' = IF BrightnessDepsChanged(w, ic, on, br, bi) /\ on /\ ic /\ bi
                 THEN debounce(timers, w, br)
                 ELSE timers

\* --------------------------------------------------------- protocol decoder
\* x || fallback for a number x.
OrElse(x, fallback) == IF x = 0 THEN fallback ELSE x

\* The three setDeviceStats of the initial_state branch and the one of
\* updateDeviceStats: each field is replaced when the value received is
\* truthy (`if (jsonData.version)`, `data.uptime_ms ? ... : prev.uptime`,
\* `data.free_heap_bytes || prev.freeHeap`).
receivedStats(m, ds) ==
    [uptime |-> IF m.uptime_ms # 0 THEN m.uptime_ms \div 1000 ELSE ds.uptime,
     freeHeap |-> OrElse(m.free_heap_bytes, ds.freeHeap),
     firmwareVersion |-> IF m.version # NoVersion THEN m.version
                         ELSE ds.firmwareVersion]

\* Faulty variant of updateDeviceStats: the test of data.type is missing.
updateDeviceStatsAnyType(m, task) ==
    [on |-> IF m.hasState THEN m.state ELSE laserOn,
     br |-> IF m.hasB THEN OrElse(m.b, HeartbeatFallback) ELSE laserBrightness,
     bi |-> IF m.hasB THEN TRUE ELSE brightnessInitialized,
     ds |-> receivedStats(m, deviceStats)]

\* updateDeviceStats(data), called with the closure of task `task`: the
\* brightnessInitialized and laserBrightness it reads are the captured ones.
updateDeviceStats(m, task) ==
    IF m.type \in {"status", "heartbeat"}
    THEN [on |-> IF m.hasState THEN m.state ELSE laserOn,
          br |-> IF ~m.hasB THEN laserBrightness
                 ELSE IF ~task.cBI THEN OrElse(m.b, HeartbeatFallback)
                 ELSE IF Abs(OrElse(m.b, HeartbeatFallback) - task.cB) > Threshold
                      THEN OrElse(m.b, HeartbeatFallback)
                      ELSE laserBrightness,
          bi |-> IF m.hasB /\ ~task.cBI THEN TRUE ELSE brightnessInitialized,
          ds |-> receivedStats(m, deviceStats)]
    ELSE [on |-> laserOn, br |-> laserBrightness,
          bi |-> brightnessInitialized, ds |-> deviceStats]

\* processReceivedData(data): the state its setters leave.
processReceivedData(m, task) ==
    IF m.kind = "json"
    THEN IF m.type = "initial_state"
         THEN [on |-> IF m.hasState THEN m.state ELSE laserOn,
               br |-> IF m.hasB THEN OrElse(m.b, InitialStateFallback)
                      ELSE laserBrightness,
               bi |-> IF m.hasB THEN TRUE ELSE brightnessInitialized,
               ds |-> receivedStats(m, deviceStats)]
         ELSE updateDeviceStats(m, task)
    ELSE [on |-> IF m.kind \in {"banner", "echo"} /\ m.hasState
                 THEN m.state ELSE laserOn,
          br |-> IF m.kind \in {"loaded", "banner", "echo"} /\ m.hasB
                 THEN m.b ELSE laserBrightness,
          bi |-> IF m.kind \in {"loaded", "banner", "echo"} /\ m.hasB
                 THEN TRUE ELSE brightnessInitialized,
          ds |-> deviceStats]

\* logMessage(JSON.stringify(jsonData, null, 2), 'json'): the entry shows
\* the object; the model keeps of it whether its type is one the handlers
\* know.
jsonEntry(m) == IF m.type = "other" THEN "json of other type" ELSE "json"

\* The types processReceivedData gives logMessage for line m, in order.
processLog(m, task) ==
    IF m.kind = "json"
    THEN (IF m.type = "initial_state"
          THEN <<"success">> \o (IF m.hasB THEN <<"info">> ELSE <<>>)
          ELSE IF m.type \in {"status", "heartbeat"} /\ m.hasB /\ ~task.cBI
               THEN <<"info">>
               ELSE <<>>)
         \o <<jsonEntry(m)>>
    ELSE <<"success">>
         \o (IF m.kind \in {"loaded", "banner", "echo"} /\ m.hasB
             THEN <<"info">> ELSE <<>>)

\* The console of the first render: a success entry and an info entry.
InitialConsole ==
    <<[id |-> 1, type |-> "success"], [id |-> 2, type |-> "info"]>>

\* ------------------------------------------------------------ initial state
Init ==
    /\ port = Null
    /\ reader = Null
    /\ writer = Null
    /\ isConnected = FALSE
    /\ isConnectedRef = FALSE
    /\ laserOn = FALSE
    /\ laserBrightness = DefaultBrightness
    /\ brightnessInitialized = FALSE
    /\ deviceStats = InitialStats
    /\ timers = {}
    /\ written = <<>>
    /\ conn = [c \in ConnIds |-> IdleTask]
    /\ nextConn = 1
    /\ teardowns = <<>>
    /\ held = [c \in ConnIds |-> {}]
    /\ hasSerial \in BOOLEAN
    /\ consoleData = InitialConsole
    /\ logged = <<>>
    /\ burst = NoBurst
    /\ frameIn = <<>>
    /\ frameOut = <<>>

\* ------------------------------------------------------------------ connect
\* Click on Connect: connect() up to `await navigator.serial.requestPort()`.
\* The task keeps the variables of the render the button belongs to.
connect ==
    /\ ~isConnected
    /\ IF hasSerial
       THEN /\ nextConn <= MaxConnects
            /\ conn' = [conn EXCEPT ![nextConn] =
                   [pc |-> "requestPort", cr |-> reader, cw |-> writer,
                    cp |-> port, cBI |-> brightnessInitialized,
                    cB |-> laserBrightness, buffer |-> <<>>]]
            /\ nextConn' = nextConn + 1
            /\ logged' = <<"warning">>
       ELSE /\ logged' = <<"error">>
            /\ UNCHANGED <<conn, nextConn>>
    /\ burst' = NoBurst
    /\ UNCHANGED <<reactState, written, teardowns, frameVars, otherVars, held>>

\* requestPort() resolves: connect() goes on to `await selectedPort.open()`.
requestPortResolved(c) ==
    /\ conn[c].pc = "requestPort"
    /\ conn' = [conn EXCEPT ![c].pc = "open"]
    /\ logged' = <<>>
    /\ burst' = NoBurst
    /\ UNCHANGED <<reactState, written, nextConn, teardowns,
                   frameVars, otherVars, held>>

\* requestPort() rejects (selection cancelled): the catch block.
requestPortRejected(c) ==
    /\ conn[c].pc = "requestPort"
    /\ conn' = [conn EXCEPT ![c] = Ended("failed")]
    /\ logged' = <<"error">>
    /\ burst' = NoBurst
    /\ UNCHANGED <<reactState, written, nextConn, teardowns,
                   frameVars, otherVars, held>>

\* Faulty variant of openFailed: the four state updates are made before the
\* test of reader and writer throws.
openFailedAfterUpdates(c) ==
    /\ conn[c].pc = "open"
    /\ conn' = [conn EXCEPT ![c] = Ended("failed")]
    /\ logged' = <<"error">>
    /\ Render(c, Null, Null, TRUE, laserOn, laserBrightness,
              brightnessInitialized, deviceStats)
    /\ \E got \in OpenFailures : held' = [held EXCEPT ![c] = got]
    /\ burst' = NoBurst
    /\ UNCHANGED <<written, nextConn, teardowns, frameVars, otherVars>>

\* open() rejects, or the opened port has no reader / writer: the catch
\* block, which logs and closes nothing of what the attempt got.
openFailed(c) ==
    /\ conn[c].pc = "open"
    /\ conn' = [conn EXCEPT ![c] = Ended("failed")]
    /\ \E got \in OpenFailures : held' = [held EXCEPT ![c] = got]
    /\ logged' = <<"error">>
    /\ burst' = NoBurst
    /\ UNCHANGED <<reactState, written, nextConn, teardowns,
                   frameVars, otherVars>>

\* open() resolves and reader and writer exist: the four state updates,
\* sendCommand('GET_INITIAL_STATE') of the task's own render, and
\* startReading up to its first `await currentReader.read()`.
openResolved(c, ok) ==
    /\ conn[c].pc = "open"
    /\ RoomFor(conn[c].cw)
    /\ written' = sendCommand(<<"GET_INITIAL_STATE">>, conn[c].cw)
    /\ logged' = <<"success">> \o sendLog(conn[c].cw, ok)
    /\ conn' = [conn EXCEPT ![c].pc = "reading"]
    /\ Render(c, c, c, TRUE, laserOn, laserBrightness, brightnessInitialized,
              deviceStats)
    /\ held' = [held EXCEPT ![c] = Handles]
    /\ burst' = NoBurst
    /\ UNCHANGED <<nextConn, teardowns, frameVars, otherVars>>

\* --------------------------------------------------------------- disconnect
\* The await a disconnect() with these handles stops at first, from `stage`.
NextAwait(stage, r, w, p) ==
    IF stage = "start" /\ r # Null THEN "cancel"
    ELSE IF stage \in {"start", "cancel"} /\ w # Null THEN "closeWriter"
    ELSE IF stage \in {"start", "cancel", "closeWriter"} /\ p # Null
         THEN "closePort"
    ELSE "finish"

\* Faulty variant of disconnectStats: the firmware version is kept.
disconnectStatsKeep(ds) == ds

\* deviceStats after disconnect()'s last line.
disconnectStats(ds) == [ds EXCEPT !.firmwareVersion = UnknownVersion]

\* Faulty variant of finishDisconnect: the stored handles are not cleared.
finishDisconnectKeepsHandles ==
    Render(port, reader, writer, FALSE, laserOn, laserBrightness, FALSE,
           disconnectStats(deviceStats))

\* The six state updates that end disconnect(), and their render.
finishDisconnect ==
    Render(Null, Null, Null, FALSE, laserOn, laserBrightness, FALSE,
           disconnectStats(deviceStats))

\* reader.cancel(): the pending read of that reader's loop resolves `done`.
cancelReader(cn, r) ==
    IF r # Null /\ cn[r].pc = "reading"
    THEN [cn EXCEPT ![r].pc = "cancelled"]
    ELSE cn

\* held after disconnect() made the call it awaits at `stage`:
\* reader.cancel(), writer.close() or port.close().
AwaitCall(stage, r, w, p) ==
    IF stage = "cancel" THEN Called("reader", r)
    ELSE IF stage = "closeWriter" THEN Called("writer", w)
    ELSE IF stage = "closePort" THEN Called("port", p)
    ELSE held

\* disconnect() called with handles r, w, p, run to its first await (or to
\* its end when every handle is null); cn is conn as the caller leaves it.
\* `released` tells whether the call ran reader.releaseLock() on its way to
\* the await it is suspended at.
startDisconnect(cn, r, w, p) ==
    /\ held' = AwaitCall(NextAwait("start", r, w, p), r, w, p)
    /\ IF NextAwait("start", r, w, p) = "finish"
       THEN /\ conn' = cn
            /\ teardowns' = teardowns
            /\ finishDisconnect
       ELSE /\ conn' = cancelReader(cn, r)
            /\ teardowns' = Append(teardowns,
                   [pc |-> NextAwait("start", r, w, p), r |-> r, w |-> w,
                    p |-> p, released |-> FALSE])
            /\ UNCHANGED reactState

\* Click on Disconnect.
disconnect ==
    /\ isConnected
    /\ Len(teardowns) < MaxTeardowns
    /\ startDisconnect(conn, reader, writer, port)
    /\ logged' = <<>>
    /\ burst' = NoBurst
    /\ UNCHANGED <<written, nextConn, frameVars, otherVars>>

RemoveAt(s, i) == SubSeq(s, 1, i - 1) \o SubSeq(s, i + 1, Len(s))

\* The await of teardown i settles, resolved (ok) or rejected: both ways
\* disconnect() runs on to its next await or to its end.  releaseLock()
\* stands behind `await reader.cancel()` in the same try block: it runs
\* when cancel() resolved, and is skipped when cancel() rejected.  The
\* catch blocks of reader and writer write to console.error; port.close()
\* is followed by 'Serial connection closed' (warning) or 'Port close
\* error' (error).
teardownStep(i, stage, ok) ==
    /\ i \in 1..Len(teardowns)
    /\ teardowns[i].pc = stage
    /\ LET t == teardowns[i]
           next == NextAwait(stage, t.r, t.w, t.p)
       IN  /\ held' = AwaitCall(next, t.r, t.w, t.p)
           /\ IF next = "finish"
              THEN /\ teardowns' = RemoveAt(teardowns, i)
                   /\ finishDisconnect
              ELSE /\ teardowns' =
                        [teardowns EXCEPT ![i].pc = next,
                                          ![i].released =
                                              stage = "cancel" /\ ok]
                   /\ UNCHANGED reactState
    /\ logged' = IF stage # "closePort" THEN <<>>
                 ELSE IF ok THEN <<"warning">>
                 ELSE <<"error">>
    /\ burst' = NoBurst
    /\ UNCHANGED <<written, conn, nextConn, frameVars, otherVars>>

cancelSettled(i, ok) == teardownStep(i, "cancel", ok)

closeWriterSettled(i, ok) == teardownStep(i, "closeWriter", ok)

closePortSettled(i, ok) == teardownStep(i, "closePort", ok)

\* ---------------------------------------------------------------- read loop
\* One iteration of startReading's loop for a chunk that holds exactly one
\* complete protocol line m while the buffer is empty: m is decoded by the
\* processReceivedData of the task's render.
readLine(c, m) ==
    /\ conn[c].pc = "reading"
    /\ conn[c].buffer = <<>>
    /\ LET e == processReceivedData(m, conn[c])
       IN  Render(port, reader, writer, isConnected, e.on, e.br, e.bi, e.ds)
    /\ logged' = processLog(m, conn[c])
    /\ burst' = NoBurst
    /\ UNCHANGED <<written, conn, nextConn, teardowns, frameVars, otherVars, held>>

\* read() resolves with done (the stream ended, or the reader was
\* cancelled): the loop breaks.
readDone(c) ==
    /\ conn[c].pc \in {"reading", "cancelled"}
    /\ conn' = [conn EXCEPT ![c] = Ended("done")]
    /\ logged' = <<>>
    /\ burst' = NoBurst
    /\ UNCHANGED <<reactState, written, nextConn, teardowns,
                   frameVars, otherVars, held>>

\* read() rejects.  NetworkError / NotFoundError: disconnect() of the task's
\* render is called and the loop breaks; any other error: the loop goes on.
readError(c, name) ==
    /\ conn[c].pc = "reading"
    /\ IF name \in {"NetworkError", "NotFoundError"}
       THEN /\ NextAwait("start", conn[c].cr, conn[c].cw, conn[c].cp) # "finish"
                  => Len(teardowns) < MaxTeardowns
            /\ startDisconnect([conn EXCEPT ![c] = Ended("lost")],
                               conn[c].cr, conn[c].cw, conn[c].cp)
       ELSE UNCHANGED <<reactState, conn, teardowns, held>>
    /\ logged' = IF name \in {"NetworkError", "NotFoundError"}
                 THEN <<"warning">> ELSE <<>>
    /\ burst' = NoBurst
    /\ UNCHANGED <<written, nextConn, frameVars, otherVars>>

\* ------------------------------------------------------------- user intents
\* Faulty variant of handleLaserToggle: the command is chosen by the power
\* state before the click instead of the new one.
handleLaserToggleOldState(ok) ==
    /\ isConnected
    /\ RoomFor(writer)
    /\ logged' = sendLog(writer, ok)
    /\ written' = sendCommand(IF laserOn THEN <<"LASER_ON">>
                                         ELSE <<"LASER_OFF">>, writer)
    /\ Render(port, reader, writer, isConnected, ~laserOn, laserBrightness,
              brightnessInitialized, deviceStats)
    /\ burst' = NoBurst
    /\ UNCHANGED <<conn, nextConn, teardowns, frameVars, otherVars, held>>

\* Click on the power switch (enabled while connected).
handleLaserToggle(ok) ==
    /\ isConnected
    /\ RoomFor(writer)
    /\ logged' = sendLog(writer, ok)
    /\ written' = sendCommand(IF ~laserOn THEN <<"LASER_ON">>
                                          ELSE <<"LASER_OFF">>, writer)
    /\ Render(port, reader, writer, isConnected, ~laserOn, laserBrightness,
              brightnessInitialized, deviceStats)
    /\ burst' = NoBurst
    /\ UNCHANGED <<conn, nextConn, teardowns, frameVars, otherVars, held>>

\* The slider is moved to v (enabled while connected and the laser is on).
\* burst counts the moves made while the timer of the move before is pending.
handleBrightnessChange(v) ==
    /\ isConnected
    /\ laserOn
    /\ v # laserBrightness
    /\ Render(port, reader, writer, isConnected, laserOn, v,
              brightnessInitialized, deviceStats)
    /\ logged' = <<>>
    /\ burst' = IF brightnessInitialized /\ isConnectedRef /\ writer # Null
                THEN IF burst.n > 0 /\ \E t \in timers : t.w = writer
                     THEN [n |-> Min(burst.n + 1, BurstCap), last |-> v,
                           sent |-> burst.sent]
                     ELSE [n |-> 1, last |-> v, sent |-> <<>>]
                ELSE NoBurst
    /\ UNCHANGED <<written, conn, nextConn, teardowns, frameVars, otherVars, held>>

\* A debounce timer fires: sendCommand(`SET_LASER_PWM:${brightness}`) of the
\* render that created the debounced function.
timerFire(t, ok) ==
    /\ t \in timers
    /\ RoomFor(t.w)
    /\ logged' = sendLog(t.w, ok)
    /\ timers' = timers \ {t}
    /\ written' = sendCommand(<<"SET_LASER_PWM", t.v>>, t.w)
    /\ burst' = IF burst.n > 0 /\ t.w = writer /\ written' # written
                THEN [burst EXCEPT !.sent = Append(@, t.v)]
                ELSE NoBurst
    /\ UNCHANGED <<port, reader, writer, isConnected, isConnectedRef, laserOn,
                   laserBrightness, brightnessInitialized, deviceStats,
                   conn, nextConn, teardowns, frameVars, otherVars, held>>

\* ------------------------------------------------------------------ console
\* prev.slice(-n): the last n entries of prev, all of them when it has fewer.
slice(prev, n) ==
    IF Len(prev) <= n THEN prev ELSE SubSeq(prev, Len(prev) - n + 1, Len(prev))

\* Faulty variant of logMessage: slice(-100), one entry too many is kept.
logMessageKeepsOneMore(prev, type) ==
    Append(slice(prev, LogKeep + 1), [id |-> Last(prev).id + 1, type |-> type])

\* The updater logMessage hands to setConsoleData.  An entry is its type and
\* an id that stands for its timestamp and message: entries are numbered in
\* the order they are created.
logMessage(prev, type) ==
    Append(slice(prev, LogKeep), [id |-> Last(prev).id + 1, type |-> type])

\* Some handler calls logMessage.
logCall(type) ==
    /\ Last(consoleData).id < MaxLogged
    /\ consoleData' = logMessage(consoleData, type)
    /\ logged' = <<type>>
    /\ UNCHANGED <<reactState, written, conn, nextConn, teardowns, held,
                   hasSerial, burst, frameVars>>

\* Click on Clear: the console is replaced by the one entry 'Console cleared'.
clearConsole ==
    /\ Last(consoleData).id < MaxLogged
    /\ consoleData' = <<[id |-> Last(consoleData).id + 1, type |-> "success"]>>
    /\ logged' = <<>>
    /\ UNCHANGED <<reactState, written, conn, nextConn, teardowns, held,
                   hasSerial, burst, frameVars>>

\* ------------------------------------------------------------- frame reader
\* Bytes on the wire: "a" a letter, "sp" a blank, "nl" the newline, and
\* "C3" "A9" the two bytes of one UTF-8 character (decoded: "e9").
Bytes == {"a", "sp", "nl", "C3", "A9"}

Chunks == UNION {[1..n -> Bytes] : n \in 1..MaxChunk}

\* new TextDecoder().decode(value): UTF-8, not streaming, not fatal: a lead
\* byte without its continuation byte, and a continuation byte without its
\* lead byte, each decode to U+FFFD.
RECURSIVE decode(_)
decode(bs) ==
    IF bs = <<>> THEN <<>>
    ELSE IF Head(bs) = "C3"
         THEN IF Len(bs) >= 2 /\ bs[2] = "A9"
              THEN <<"e9">> \o decode(SubSeq(bs, 3, Len(bs)))
              ELSE <<"fffd">> \o decode(Tail(bs))
    ELSE IF Head(bs) = "A9" THEN <<"fffd">> \o decode(Tail(bs))
    ELSE <<Head(bs)>> \o decode(Tail(bs))

\* text.split('\n'): the segments between newlines, n + 1 for n newlines.
RECURSIVE split(_)
split(cs) ==
    IF \A i \in 1..Len(cs) : cs[i] # "nl" THEN <<cs>>
    ELSE LET i == CHOOSE k \in 1..Len(cs) :
                      cs[k] = "nl" /\ \A j \in 1..(k - 1) : cs[j] # "nl"
         IN  <<SubSeq(cs, 1, i - 1)>> \o split(SubSeq(cs, i + 1, Len(cs)))

\* line.trim()
RECURSIVE trim(_)
trim(cs) ==
    IF cs = <<>> THEN cs
    ELSE IF Head(cs) = "sp" THEN trim(Tail(cs))
    ELSE IF Last(cs) = "sp" THEN trim(SubSeq(cs, 1, Len(cs) - 1))
    ELSE cs

\* The trimmed, non-empty ones among the segments: what the for loop gives
\* to processReceivedData.
RECURSIVE forward(_)
forward(segs) ==
    IF segs = <<>> THEN <<>>
    ELSE IF trim(Head(segs)) = <<>> THEN forward(Tail(segs))
    ELSE <<trim(Head(segs))>> \o forward(Tail(segs))

\* One iteration of startReading's loop for a chunk of raw bytes.  The lines
\* these bytes can form are no JSON and match no text pattern:
\* processReceivedData changes no state of the component for them.
readBytes(c, chunk) ==
    /\ conn[c].pc = "reading"
    /\ Len(frameIn) + Len(chunk) <= MaxBytes
    /\ LET lines == split(conn[c].buffer \o decode(chunk))
       IN  /\ conn' = [conn EXCEPT ![c].buffer = Last(lines)]
           /\ frameOut' = frameOut \o forward(SubSeq(lines, 1, Len(lines) - 1))
           /\ logged' = [k \in 1..Len(forward(SubSeq(lines, 1, Len(lines) - 1)))
                             |-> "success"]
    /\ frameIn' = frameIn \o chunk
    /\ burst' = NoBurst
    /\ UNCHANGED <<reactState, written, nextConn, teardowns, otherVars, held>>

\* ----------------------------------------------------------- specifications
\* Every handler of the component, for MaxConnects Connect clicks.
Next ==
    \/ connect
    \/ \E c \in ConnIds : requestPortResolved(c)
    \/ \E c \in ConnIds : requestPortRejected(c)
    \/ \E c \in ConnIds : openFailed(c)
    \/ \E c \in ConnIds, ok \in BOOLEAN : openResolved(c, ok)
    \/ disconnect
    \/ \E i \in 1..MaxTeardowns, ok \in BOOLEAN : cancelSettled(i, ok)
    \/ \E i \in 1..MaxTeardowns, ok \in BOOLEAN : closeWriterSettled(i, ok)
    \/ \E i \in 1..MaxTeardowns, ok \in BOOLEAN : closePortSettled(i, ok)
    \/ \E c \in ConnIds, m \in Lines : readLine(c, m)
    \/ \E c \in ConnIds : readDone(c)
    \/ \E c \in ConnIds, name \in {"NetworkError", "NotFoundError", "Error"} :
           readError(c, name)
    \/ \E ok \in BOOLEAN : handleLaserToggle(ok)
    \/ \E v \in UserBrightness : handleBrightnessChange(v)
    \/ \E t \in timers, ok \in BOOLEAN : timerFire(t, ok)

Spec == Init /\ [][Next]_vars

\* One session: the first Connect click has been made (connect() waits for
\* the port chooser) and no further Connect click follows.  Everything else
\* the component does is in it; reader.cancel() resolves here (its
\* rejection changes what disconnect() releases and nothing else, and is
\* followed in SpecDispatch and SpecLifecycle).
InitSession ==
    /\ port = Null
    /\ reader = Null
    /\ writer = Null
    /\ isConnected = FALSE
    /\ isConnectedRef = FALSE
    /\ laserOn = FALSE
    /\ laserBrightness = DefaultBrightness
    /\ brightnessInitialized = FALSE
    /\ deviceStats = InitialStats
    /\ timers = {}
    /\ written = <<>>
    /\ conn = [c \in ConnIds |->
                  IF c = 1 THEN [IdleTask EXCEPT !.pc = "requestPort"]
                  ELSE IdleTask]
    /\ nextConn = 2
    /\ teardowns = <<>>
    /\ held = [c \in ConnIds |-> {}]
    /\ hasSerial = TRUE
    /\ consoleData = InitialConsole
    /\ logged = <<"warning">>
    /\ burst = NoBurst
    /\ frameIn = <<>>
    /\ frameOut = <<>>

NextSession ==
    \/ requestPortResolved(1)
    \/ requestPortRejected(1)
    \/ openFailed(1)
    \/ \E ok \in BOOLEAN : openResolved(1, ok)
    \/ disconnect
    \/ \E i \in 1..MaxTeardowns : cancelSettled(i, TRUE)
    \/ \E i \in 1..MaxTeardowns, ok \in BOOLEAN : closeWriterSettled(i, ok)
    \/ \E i \in 1..MaxTeardowns, ok \in BOOLEAN : closePortSettled(i, ok)
    \/ \E m \in Lines : readLine(1, m)
    \/ readDone(1)
    \/ \E name \in {"NetworkError", "NotFoundError", "Error"} :
           readError(1, name)
    \/ \E ok \in BOOLEAN : handleLaserToggle(ok)
    \/ \E v \in UserBrightness : handleBrightnessChange(v)
    \/ \E t \in timers, ok \in BOOLEAN : timerFire(t, ok)

SpecSession == InitSession /\ [][NextSession]_vars

\* The command dispatcher: one session in which the device sends nothing but
\* complete initial_state messages, with the laser controls, the debounce
\* timers and the ways the session ends.
NextDispatch ==
    \/ requestPortResolved(1)
    \/ \E ok \in BOOLEAN : openResolved(1, ok)
    \/ \E m \in InitialStateLines : readLine(1, m)
    \/ \E name \in {"NetworkError", "Error"} : readError(1, name)
    \/ disconnect
    \/ \E i \in 1..MaxTeardowns, ok \in BOOLEAN : cancelSettled(i, ok)
    \/ \E i \in 1..MaxTeardowns, ok \in BOOLEAN : closeWriterSettled(i, ok)
    \/ \E i \in 1..MaxTeardowns, ok \in BOOLEAN : closePortSettled(i, ok)
    \/ \E ok \in BOOLEAN : handleLaserToggle(ok)
    \/ \E v \in UserBrightness : handleBrightnessChange(v)
    \/ \E t \in timers, ok \in BOOLEAN : timerFire(t, ok)

SpecDispatch == InitSession /\ [][NextDispatch]_vars

\* The same, with setTimeout firing: a pending timer fires in the end.
SpecDispatchFair ==
    SpecDispatch /\ WF_vars(\E t \in timers, ok \in BOOLEAN : timerFire(t, ok))

\* Sessions that follow or overlap each other: Connect clicks, devices that
\* send initial_state messages and get lost, and the debounce timers.
NextReconnect ==
    \/ connect
    \/ \E c \in ConnIds : requestPortResolved(c)
    \/ \E c \in ConnIds, ok \in BOOLEAN : openResolved(c, ok)
    \/ \E c \in ConnIds, m \in InitialStateLines : readLine(c, m)
    \/ \E c \in ConnIds : readError(c, "NetworkError")
    \/ \E t \in timers, ok \in BOOLEAN : timerFire(t, ok)

SpecReconnect == Init /\ [][NextReconnect]_vars

\* Connection lifecycle alone: Connect and Disconnect clicks, the awaits of
\* connect() and disconnect(), and the ways a read loop ends; the device
\* sends nothing and the laser controls are not touched.
NextLifecycle ==
    \/ connect
    \/ \E c \in ConnIds : requestPortResolved(c)
    \/ \E c \in ConnIds : requestPortRejected(c)
    \/ \E c \in ConnIds : openFailed(c)
    \/ \E c \in ConnIds, ok \in BOOLEAN : openResolved(c, ok)
    \/ disconnect
    \/ \E i \in 1..MaxTeardowns, ok \in BOOLEAN : cancelSettled(i, ok)
    \/ \E i \in 1..MaxTeardowns, ok \in BOOLEAN : closeWriterSettled(i, ok)
    \/ \E i \in 1..MaxTeardowns, ok \in BOOLEAN : closePortSettled(i, ok)
    \/ \E c \in ConnIds : readDone(c)
    \/ \E c \in ConnIds, name \in {"NetworkError", "NotFoundError", "Error"} :
           readError(c, name)

SpecLifecycle == Init /\ [][NextLifecycle]_vars

\* The same, with the promises of reader.cancel(), writer.close() and
\* port.close() settling: a suspended disconnect() is resumed in the end.
teardownSettles(i) ==
    \E ok \in BOOLEAN, stage \in {"cancel", "closeWriter", "closePort"} :
        teardownStep(i, stage, ok)

SpecLifecycleFair ==
    SpecLifecycle /\ \A i \in 1..MaxTeardowns : WF_vars(teardownSettles(i))

\* The frame reader alone: the first connection is up and its read loop is
\* fed raw bytes in chunks of every size.
InitFrame ==
    /\ port = 1
    /\ reader = 1
    /\ writer = 1
    /\ isConnected = TRUE
    /\ isConnectedRef = TRUE
    /\ laserOn = FALSE
    /\ laserBrightness = DefaultBrightness
    /\ brightnessInitialized = FALSE
    /\ deviceStats = InitialStats
    /\ timers = {}
    /\ written = <<>>
    /\ conn = [c \in ConnIds |->
                  IF c = 1 THEN [IdleTask EXCEPT !.pc = "reading"] ELSE IdleTask]
    /\ nextConn = 2
    /\ teardowns = <<>>
    /\ held = [c \in ConnIds |-> IF c = 1 THEN Handles ELSE {}]
    /\ hasSerial = TRUE
    /\ consoleData = InitialConsole
    /\ logged = <<"success", "error">>
    /\ burst = NoBurst
    /\ frameIn = <<>>
    /\ frameOut = <<>>

NextFrame == \E chunk \in Chunks : readBytes(1, chunk)

\* The protocol decoder alone: the first connection is up and its read loop
\* is given one complete line after the other.
NextDecoder == \E m \in Lines \cup StatsLines : readLine(1, m)

SpecDecoder == InitFrame /\ [][NextDecoder]_vars

\* The console alone: calls of logMessage and clicks on Clear.
NextConsole ==
    \/ \E type \in {"info"} : logCall(type)
    \/ clearConsole

SpecConsole == Init /\ [][NextConsole]_vars

SpecFrame == InitFrame /\ [][NextFrame]_vars

\* ------------------------------------------------------------------- claims
\* C1: while brightnessInitialized is true, a status or heartbeat message
\* that reports brightness b leaves the brightness as it is when b is within
\* 2 of it, and makes it b when b is further away.
C1_HeartbeatThreshold ==
    [][\A c \in ConnIds, m \in StatusLines :
          (brightnessInitialized /\ readLine(c, m))
              => laserBrightness' = IF Abs(m.b - laserBrightness) <= 2
                                    THEN laserBrightness
                                    ELSE m.b]_vars

\* C2: a burst of slider moves, each made before the timer of the move
\* before it has fired, writes nothing while its timer is pending and, once
\* the timer has fired, has written exactly one SET_LASER_PWM, carrying the
\* last value of the burst.
C2_BurstOneWrite ==
    burst.n > 0 =>
        IF \E t \in timers : t.w = writer
        THEN burst.sent = <<>>
        ELSE /\ burst.sent = <<burst.last>>
             /\ written # <<>>
             /\ Last(written) = <<"SET_LASER_PWM", burst.last>>

\* C2 witness: a burst of at least two moves has ended with its one write.
C2_Witness ==
    /\ burst.n >= 2
    /\ burst.sent = <<burst.last>>
    /\ ~\E t \in timers : t.w = writer
    /\ Last(written) = <<"SET_LASER_PWM", burst.last>>

\* C3: an initial_state message with laser_state s and laser_brightness b in
\* 0..100 leaves power = s, brightness = b and brightnessInitialized true.
C3_InitialStateApplied ==
    [][\A c \in ConnIds, m \in InitialStateLines :
          (m.b \in 0..100 /\ readLine(c, m))
              => /\ laserOn' = m.state
                 /\ laserBrightness' = m.b
                 /\ brightnessInitialized']_vars

\* The input is well-formed UTF-8 / a prefix of well-formed UTF-8.
ValidPrefix(bs) ==
    \A i \in 1..Len(bs) :
        /\ bs[i] = "A9" => i > 1 /\ bs[i - 1] = "C3"
        /\ bs[i] = "C3" /\ i < Len(bs) => bs[i + 1] = "A9"

Valid(bs) == ValidPrefix(bs) /\ (bs # <<>> => Last(bs) # "C3")

\* The input consists of complete, newline-terminated lines.
Complete(bs) == bs = <<>> \/ Last(bs) = "nl"

AllButLast(s) == SubSeq(s, 1, Len(s) - 1)

\* C4: when the bytes read so far are complete newline-terminated lines,
\* the lines forwarded to the decoder are the lines of the concatenation
\* (split on the newline, trimmed, empty ones discarded), in order, however
\* the bytes were cut into chunks.
C4_FramesEqualSplit ==
    (Valid(frameIn) /\ Complete(frameIn))
        => frameOut = forward(AllButLast(split(decode(frameIn))))

\* C5: at every moment the lines forwarded are exactly the lines whose
\* newline has been received, each once and whole, and the unterminated
\* tail is in the buffer.
C5_ForwardedWhenTerminated ==
    ValidPrefix(frameIn)
        => /\ frameOut = forward(AllButLast(split(decode(frameIn))))
           /\ Valid(frameIn)
                  => conn[1].buffer = Last(split(decode(frameIn)))

\* A disconnect() has run to its end in this step: a suspended one resumed
\* for the last time, or the read loop called one that had nothing to await.
DisconnectCompleted ==
    \/ Len(teardowns') < Len(teardowns)
    \/ \E c \in ConnIds : conn[c].pc = "reading" /\ conn'[c].pc = "lost"

\* C6: the step that completes a disconnect leaves the component
\* disconnected with brightnessInitialized false and firmwareVersion
\* "Unknown", and power and brightness as they were before the step.
C6_DisconnectResets ==
    [][DisconnectCompleted
          => /\ ~isConnected'
             /\ ~brightnessInitialized'
             /\ deviceStats'.firmwareVersion = "Unknown"
             /\ laserOn' = laserOn
             /\ laserBrightness' = laserBrightness]_vars

\* C6 witness: the session was connected and a disconnect has completed,
\* with power on and a brightness other than the default kept.
C6_Witness ==
    /\ conn[1].pc \in {"done", "lost"}
    /\ ~isConnected
    /\ teardowns = <<>>
    /\ ~brightnessInitialized
    /\ deviceStats.firmwareVersion = "Unknown"
    /\ laserOn
    /\ laserBrightness # DefaultBrightness

\* C7: the brightness is always an integer in 0..100.
C7_BrightnessInRange == laserBrightness \in 0..100

\* C8: every SET_LASER_PWM written carries a value in 0..100.
C8_PwmInRange ==
    \A i \in 1..Len(written) :
        written[i][1] = "SET_LASER_PWM" => written[i][2] \in 0..100

\* C9: once the read loop of a connection is reading, GET_INITIAL_STATE has
\* been written exactly once.
C9_InitialStateRequested ==
    conn[1].pc = "reading"
        => Cardinality({i \in 1..Len(written) :
                           written[i] = <<"GET_INITIAL_STATE">>}) = 1

\* C10: at no time are two connect attempts, two teardowns or two read
\* loops active, nor a connect attempt next to a teardown.
C10_SingleFlight ==
    LET connecting == {c \in ConnIds : conn[c].pc \in {"requestPort", "open"}}
        reading == {c \in ConnIds : conn[c].pc \in {"reading", "cancelled"}}
    IN  /\ Cardinality(connecting) <= 1
        /\ Len(teardowns) <= 1
        /\ Cardinality(reading) <= 1
        /\ ~(connecting # {} /\ teardowns # <<>>)

\* C11: while connected, a read loop that observes the end of the stream or
\* a NetworkError / NotFoundError starts a disconnect in that step (a
\* disconnect() is suspended at an await, or has already completed), and a
\* read error of any other name starts none.
C11_AutomaticDisconnect ==
    [][\A c \in ConnIds :
          /\ (isConnected /\ conn[c].pc = "reading"
                  /\ conn'[c].pc \in {"done", "lost"})
                 => (~isConnected' \/ Len(teardowns') > Len(teardowns))
          /\ readError(c, "Error")
                 => (isConnected' = isConnected /\ teardowns' = teardowns)]_vars

\* C12: a disconnect() that is suspended at an await is resumed, whatever
\* the outcome of each step, until none is left, and then the component is
\* disconnected and holds no port, reader or writer.
C12_DisconnectCompletes ==
    (teardowns # <<>>)
        ~> (/\ teardowns = <<>>
            /\ ~isConnected
            /\ port = Null /\ reader = Null /\ writer = Null)

\* C12 witness: a disconnect of an open connection has completed although
\* its last step, port.close(), was rejected.
C12_Witness ==
    /\ logged = <<"error">>
    /\ \E c \in ConnIds : conn[c].pc \in {"cancelled", "done"}
    /\ \A c \in ConnIds : conn[c].pc # "failed"
    /\ teardowns = <<>>
    /\ ~isConnected
    /\ port = Null /\ reader = Null /\ writer = Null

\* C13: the console never holds more than 100 entries; a call of logMessage
\* appends the new entry to the entries held, after dropping exactly the
\* oldest one when 100 are held, and a clear leaves one entry: the console
\* is the last min(100, k) entries created since the start or the clear.
C13_ConsoleKeepsLast100 ==
    /\ [](Len(consoleData) <= 100)
    /\ [][/\ \A type \in {"info"} :
                logCall(type)
                    => /\ Last(consoleData').type = type
                       /\ \A i \in 1..Len(consoleData) :
                              Last(consoleData').id # consoleData[i].id
                       /\ consoleData' =
                              Append(IF Len(consoleData) < 100
                                     THEN consoleData
                                     ELSE Tail(consoleData),
                                     Last(consoleData'))
          /\ clearConsole => Len(consoleData') = 1]_vars

\* C13 witness: 100 entries are held, the second entry of the first render
\* is the oldest: the 101st entry has pushed out the first and no other.
C13_Witness ==
    /\ Len(consoleData) = 100
    /\ Head(consoleData) = InitialConsole[2]
    /\ Last(consoleData).id = 101

\* C14: a sendCommand called while its writer is null or isConnectedRef is
\* false (the one of connect(), and the one of a debounce timer that fires
\* after the session has gone) writes nothing and gives the console exactly
\* one entry, of type error; the timer's call leaves connection, power,
\* brightness, brightnessInitialized and device statistics as they are.
C14_NoSessionNoWrite ==
    [][/\ \A t \in timers, ok \in BOOLEAN :
              (timerFire(t, ok) /\ (t.w = Null \/ ~isConnectedRef))
                  => /\ written' = written
                     /\ logged' = <<"error">>
                     /\ UNCHANGED <<isConnected, laserOn, laserBrightness,
                                    brightnessInitialized, deviceStats>>
       /\ \A ok \in BOOLEAN :
              (openResolved(1, ok) /\ (conn[1].cw = Null \/ ~isConnectedRef))
                  => /\ written' = written
                     /\ logged' = <<"success", "error">>]_vars

\* C14 witness: the device was lost while a debounce timer was pending, and
\* the timer has fired into the closed session.
C14_Witness ==
    /\ conn[1].pc = "lost"
    /\ ~isConnectedRef
    /\ timers = {}
    /\ logged = <<"error">>
    /\ \A i \in 1..Len(written) : written[i][1] # "SET_LASER_PWM"

\* C15: a SET_LASER_PWM is written only while brightnessInitialized is true.
C15_PwmOnlyWhenInitialized ==
    [][(written' # written /\ Last(written')[1] = "SET_LASER_PWM")
          => brightnessInitialized]_vars

\* C16: an initial_state, status or heartbeat message replaces
\* firmwareVersion by its version, uptime by floor(uptime_ms / 1000) and
\* freeHeap by its free_heap_bytes, each when the message has the key, be
\* the value 0 or "", and leaves the field as it is when it has not.
C16_StatsOverwritten ==
    [][\A m \in StatsLines :
          (m.type # "other" /\ readLine(1, m))
              => deviceStats' =
                     [uptime |-> IF m.hasU THEN m.uptime_ms \div 1000
                                 ELSE deviceStats.uptime,
                      freeHeap |-> IF m.hasH THEN m.free_heap_bytes
                                   ELSE deviceStats.freeHeap,
                      firmwareVersion |-> IF m.hasV THEN m.version
                                          ELSE deviceStats.firmwareVersion]]_vars

\* C17: brightnessInitialized is false at the start, and it goes from true
\* to false only in a step that completes a disconnect: no line from the
\* device, no click on the power switch, no move of the slider and no timer
\* resets it.
C17_FlagResetOnlyByDisconnect ==
    /\ ~brightnessInitialized
    /\ [][(brightnessInitialized /\ ~brightnessInitialized')
              => DisconnectCompleted]_vars

\* C17 witness: in a session whose flag was set by a line of the device a
\* debounce timer has written its SET_LASER_PWM and the laser is off, and
\* the flag is still set.
C17_Witness ==
    /\ isConnected
    /\ brightnessInitialized
    /\ ~laserOn
    /\ written # <<>>
    /\ Last(written)[1] = "SET_LASER_PWM"

\* C18: a connect attempt that fails (no Web Serial in the browser, the port
\* request rejected, open() rejected or no reader / writer) changes neither
\* the connection state, which is Disconnected unless another attempt has
\* opened a port meanwhile, nor power, brightness, brightnessInitialized,
\* device statistics or handles; it starts no read loop, writes nothing, and
\* gives the console exactly one entry, of type error.
C18_ConnectFailureIsolated ==
    [][/\ \A c \in ConnIds :
              (requestPortRejected(c) \/ openFailed(c))
                  => /\ UNCHANGED <<reactState, written, teardowns>>
                     /\ conn' = [conn EXCEPT ![c] = Ended("failed")]
                     /\ logged' = <<"error">>
                     /\ (\A d \in ConnIds \ {c} :
                             conn[d].pc \in {"idle", "requestPort", "open",
                                             "failed"})
                            => ~isConnected'
       /\ (connect /\ ~hasSerial)
              => /\ UNCHANGED <<reactState, written, teardowns, conn>>
                 /\ logged' = <<"error">>
                 /\ ~isConnected']_vars

\* C18 witness: the only attempt made has failed, leaving the component
\* disconnected with the error entry in the console.
C18_Witness ==
    /\ hasSerial
    /\ conn[1].pc = "failed"
    /\ conn[2].pc = "idle"
    /\ logged = <<"error">>
    /\ ~isConnected
    /\ port = Null /\ reader = Null /\ writer = Null

\* C19: a JSON line whose type is none of initial_state, status, heartbeat
\* (or that has no type) changes neither power, brightness,
\* brightnessInitialized and device statistics nor the connection, arms no
\* timer and writes nothing; it gives the console one entry, of type json.
C19_UnknownTypeOnlyLogged ==
    [][\A m \in OtherTypeLines :
          readLine(1, m)
              => /\ UNCHANGED <<reactState, written, conn, teardowns>>
                 /\ logged' = <<"json of other type">>]_vars

\* C19 witness: a JSON line of another type has been processed, and the
\* firmware version is still unknown and brightnessInitialized still false.
C19_Witness ==
    /\ logged = <<"json of other type">>
    /\ conn[1].pc = "reading"
    /\ deviceStats.firmwareVersion = UnknownVersion
    /\ ~brightnessInitialized

\* C20: once the slider was moved in a session with the laser on and
\* brightnessInitialized true, then, unless another event comes first (a
\* line of the device, a click, a step of connect or disconnect, the timer
\* of another session), the SET_LASER_PWM of the value moved to last is
\* written in the end.  The transport record holds MaxWrites commands.
C20_FinalValueDelivered ==
    (burst.n > 0)
        ~> \/ burst.n = 0
           \/ /\ burst.sent = <<burst.last>>
              /\ written # <<>>
              /\ Last(written) = <<"SET_LASER_PWM", burst.last>>
           \/ Len(written) >= MaxWrites

\* C20 witness: one move of the slider, and its timer has fired: the value
\* was written and the write resolved ('Sent: ...' is the last entry).
C20_Witness ==
    /\ burst.n = 1
    /\ burst.sent = <<burst.last>>
    /\ Last(written) = <<"SET_LASER_PWM", burst.last>>
    /\ logged = <<"warning">>
    /\ timers = {}

\* C21: at most one debounced send is pending at any time.
C21_OnePendingSend == Cardinality(timers) <= 1


\* C22: in disconnect() no failed step keeps a later step from being
\* attempted.  A disconnect() that is past its await of reader.cancel() has
\* called cancel(), and at the await that follows it has run
\* reader.releaseLock(); one that is at its await of port.close() has also
\* called writer.close().
C22_EveryStepAttempted ==
    \A i \in 1..Len(teardowns) :
        LET t == teardowns[i]
        IN  /\ t.pc \in {"closeWriter", "closePort"} /\ t.r # Null
                => "reader" \notin held[t.r]
            /\ t.r # Null /\ t.pc = NextAwait("cancel", t.r, t.w, t.p)
                => t.released
            /\ t.pc = "closePort" /\ t.w # Null
                => "writer" \notin held[t.w]
            /\ t.pc = "closePort" => "port" \notin held[t.p]

\* C23: a click on the power switch while connected hands exactly one
\* command to the writer in the click itself, LASER_ON when the power was
\* off and LASER_OFF when it was on; a SET_LASER_PWM the click causes is
\* then no more than a pending timer, so it is written later.
C23_ToggleWritesOneCommand ==
    [][\A ok \in BOOLEAN :
          handleLaserToggle(ok)
              => /\ written' = Append(written, IF laserOn THEN <<"LASER_OFF">>
                                                          ELSE <<"LASER_ON">>)
                 /\ \A t \in timers' \ timers :
                        t.w = writer /\ t.v = laserBrightness]_vars

\* Reached by: initial_state with the laser off, click on the power switch
\* (LASER_ON written, timer armed), the timer fires (SET_LASER_PWM written).
C23_Witness ==
    /\ Len(written) = 2
    /\ written[1] = <<"LASER_ON">>
    /\ written[2][1] = "SET_LASER_PWM"
    /\ laserOn

\* C24: the read loop of a session terminates.  A read() that resolves with
\* done and a read() that rejects, whatever the error, both end the loop,
\* and a loop that has ended or whose read was cancelled never reads again.
C24_ReadLoopTerminates ==
    [][\A c \in ConnIds :
          /\ readDone(c) => conn'[c].pc = "done"
          /\ \A name \in {"NetworkError", "NotFoundError", "Error"} :
                 readError(c, name) => conn'[c].pc # "reading"
          /\ conn[c].pc \in {"cancelled", "done", "lost"}
                 => conn'[c].pc \in {"cancelled", "done", "lost"}]_vars

\* C25: while the component is disconnected and no connect() and no
\* disconnect() is suspended at an await, no handle is held: on every port
\* that was opened close() has been called, and on every reader and writer
\* that was obtained cancel() or close() has been called.
C25_NothingHeldWhenDisconnected ==
    (/\ ~isConnected
     /\ teardowns = <<>>
     /\ \A c \in ConnIds : conn[c].pc \notin {"requestPort", "open"})
        => \A c \in ConnIds : held[c] = {}

\* C26: only a move of the slider leads to a SET_LASER_PWM.  A line decoded
\* from the device (initial_state, status or heartbeat, legacy text) arms no
\* debounce timer and hands nothing to the writer.
C26_DeviceLinesArmNoTimer ==
    [][\A c \in ConnIds, m \in Lines :
          readLine(c, m) => timers' = timers /\ written' = written]_vars

\* C27: a SET_LASER_PWM is handed to the writer only while the host-side
\* power state is on, and it carries the host brightness of that moment.
C27_PwmOnlyWhileOn ==
    [][\A t \in timers, ok \in BOOLEAN :
          timerFire(t, ok) /\ written' # written
              => laserOn /\ t.v = laserBrightness]_vars

====
